---- MODULE Spec2Model ----
(***************************************************************************)
(* Lead intake application (src/main.py): a FastAPI service over a single  *)
(* SQLite table `leads`.  Text values (name, email, message, CSV output)   *)
(* are sequences of one-character strings, so that trimming and CSV        *)
(* quoting are computed character by character.  An optional value is a    *)
(* sequence of length at most one: None is <<>>, a present value v <<v>>.  *)
(***************************************************************************)
EXTENDS Integers, Sequences, FiniteSets, TLC

VARIABLES
    ADMIN_KEY,  \* os.getenv("ADMIN_KEY", ""), read once at import
    leads,      \* rows of table `leads`, in insertion order
    req,        \* the request being answered
    resp,       \* the response to it
    STRIPE_SECRET_KEY,  \* paid variant: the payment provider's credential
    sessions,   \* paid variant: the provider's checkout sessions and their status
    pending     \* paid variant: submissions between the store lookup and the INSERT

vars == <<ADMIN_KEY, leads, req, resp, STRIPE_SECRET_KEY, sessions, pending>>

\* what the paid variant adds; the free variant (src/main.py) never touches it
paid_vars == <<STRIPE_SECRET_KEY, sessions, pending>>

-----------------------------------------------------------------------------
(* Bounds of the model *)

MaxLeads == 2
MaxPending == 2

(* Program constants *)

MinNameLen == 2
MinMessageLen == 10
AdminLimit == 50

-----------------------------------------------------------------------------
(* Python values *)

None == <<>>
Some(v) == <<v>>

\* characters str.strip() removes when called without argument
Whitespace == {" ", "\t", "\n", "\r", "\f"}

RECURSIVE lstrip(_)
lstrip(s) == IF s # <<>> /\ Head(s) \in Whitespace THEN lstrip(Tail(s)) ELSE s

RECURSIVE rstrip(_)
rstrip(s) ==
    IF s # <<>> /\ s[Len(s)] \in Whitespace
    THEN rstrip(SubSeq(s, 1, Len(s) - 1))
    ELSE s

strip(s) == rstrip(lstrip(s))

\* a honeypot test that takes a blank value for an empty one
TruthyStripped(x) == x # None /\ strip(x[1]) # <<>>

\* bool(x) of an Optional[str]: None and "" are falsy
Truthy(x) == x # None /\ x[1] # <<>>

Range(s) == {s[i] : i \in 1..Len(s)}

SetMax(S) == CHOOSE m \in S : \A x \in S : x <= m

-----------------------------------------------------------------------------
(* Inputs *)

\* configured admin secrets: unset (the default "") or set
AdminKeys == {"", "cuphead"}

\* ?key= of /admin: the query parameter defaults to ""
QueryKeys == {"", "cuphead", "guess"}

\* x-admin-key of /export.csv: the header defaults to None
HeaderKeys == {None} \cup {Some(k) : k \in QueryKeys}

Names ==
    { <<>>,
      <<" ", "J", "\t">>,
      <<"J", "o">>,
      <<"\n", "J", "o", " ">> }

\* values the EmailStr parameter type has admitted
Emails == { <<"j", "o", "@", "x", ".", "c", "o">> }

Messages ==
    { <<" ", "H", "e", "l", "l", "o", " ", "y", "o", "u", " ">>,
      <<"H", "e", "l", "l", "o", " ", "y", "o", "u", "!">>,
      <<"\t", "a", ",", "\"", "b", "\"", "\n", "c", "\r", "d", "!", "\n">> }

\* website of /submit (Optional[str], default None)
ApiWebsites == {None, Some(<<>>), Some(<<" ">>), Some(<<"s", "p", "a", "m">>)}

\* website of /submit-form (Form(""), always a str)
FormWebsites == {<<>>, <<" ">>, <<"s", "p", "a", "m">>}

\* paid variant: the session ids the provider hands out
SessionIds == {"cs_test_a1", "cs_test_b2"}

\* paid variant: ?session_id= of /intake and /submit_paid: absent, too short,
\* unknown to the provider, or one the provider handed out
SessionInputs ==
    {None, Some("cs_short"), Some("cs_test_zz")} \cup {Some(id) : id \in SessionIds}

\* paid variant: configured provider credentials: unset or set
StripeKeys == {"", "sk_test_51"}

\* datetime.utcnow() at the time of an insert
Times ==
    { [year |-> 2024, month |-> 1, day |-> 5, hour |-> 9, minute |-> 30,
       second |-> 0, microsecond |-> 0],
      [year |-> 2024, month |-> 11, day |-> 23, hour |-> 17, minute |-> 4,
       second |-> 59, microsecond |-> 1200] }

-----------------------------------------------------------------------------
(* Table `leads` *)

SOURCE_WEB == <<"w", "e", "b">>

\* a key generator that hands out the largest rowid again
NextRowIdReused(table) ==
    IF table = <<>> THEN 1 ELSE SetMax({table[i].id : i \in 1..Len(table)})

\* SQLite INTEGER PRIMARY KEY: one more than the largest rowid in the table
NextRowId(table) ==
    IF table = <<>> THEN 1 ELSE SetMax({table[i].id : i \in 1..Len(table)}) + 1

\* a row built from the name as submitted, not stripped
NewLeadUnstripped(table, name, email, message, now) ==
    [id |-> NextRowId(table),
     created_at |-> now,
     source |-> SOURCE_WEB,
     name |-> name,
     email |-> strip(email),
     message |-> strip(message)]

\* Lead(name=name.strip(), email=str(email).strip(), message=message.strip(),
\*      source="web"), with the column defaults filled in at INSERT
NewLead(table, name, email, message, now) ==
    [id |-> NextRowId(table),
     created_at |-> now,
     source |-> SOURCE_WEB,
     name |-> strip(name),
     email |-> strip(email),
     message |-> strip(message)]

\* a write that updates the newest row in place instead of adding one
InsertOverwriting(table, row) ==
    IF table = <<>> THEN <<row>> ELSE [table EXCEPT ![Len(table)] = row]

\* db.add(row); db.commit()
Insert(table, row) == Append(table, row)

\* order_by(Lead.id.desc())
RECURSIVE OrderByIdDesc(_)
OrderByIdDesc(table) ==
    IF table = <<>> THEN <<>>
    ELSE LET top == SetMax({table[i].id : i \in 1..Len(table)})
             k == CHOOSE i \in 1..Len(table) : table[i].id = top
             rest == [j \in 1..(Len(table) - 1) |->
                        IF j < k THEN table[j] ELSE table[j + 1]]
         IN <<table[k]>> \o OrderByIdDesc(rest)

\* .limit(n)
Limit(rows, n) == SubSeq(rows, 1, IF Len(rows) < n THEN Len(rows) ELSE n)


-----------------------------------------------------------------------------
(* str() of the column values, and csv.writer (dialect "excel") *)

DigitChars == <<"0", "1", "2", "3", "4", "5", "6", "7", "8", "9">>

\* str(n) of an int n >= 0
RECURSIVE IntStr(_)
IntStr(n) ==
    IF n < 10 THEN <<DigitChars[n + 1]>>
    ELSE IntStr(n \div 10) \o <<DigitChars[(n % 10) + 1]>>

\* "%0<width>d" % n
RECURSIVE ZeroPad(_, _)
ZeroPad(n, width) ==
    IF Len(IntStr(n)) >= width THEN IntStr(n)
    ELSE <<"0">> \o ZeroPad(n, width - 1)

\* str(d) of a datetime: isoformat(sep=" "), the fraction only when non-zero
DatetimeStr(d) ==
    ZeroPad(d.year, 4) \o <<"-">> \o ZeroPad(d.month, 2) \o <<"-">>
        \o ZeroPad(d.day, 2) \o <<" ">> \o ZeroPad(d.hour, 2) \o <<":">>
        \o ZeroPad(d.minute, 2) \o <<":">> \o ZeroPad(d.second, 2)
        \o (IF d.microsecond = 0 THEN <<>>
            ELSE <<".">> \o ZeroPad(d.microsecond, 6))

\* QUOTE_MINIMAL: a field is quoted when it holds the delimiter, the quote
\* character or a character of the line terminator
NeedsQuote(field) == \E i \in 1..Len(field) : field[i] \in {",", "\"", "\r", "\n"}

\* a writer that leaves the quote characters inside a field single
DoubleQuotesSkipped(field) == field

\* doublequote=True: every quote character inside a field is written twice
RECURSIVE DoubleQuotes(_)
DoubleQuotes(field) ==
    IF field = <<>> THEN <<>>
    ELSE (IF Head(field) = "\"" THEN <<"\"", "\"">> ELSE <<Head(field)>>)
             \o DoubleQuotes(Tail(field))

WriterField(field) ==
    IF NeedsQuote(field)
    THEN <<"\"">> \o DoubleQuotes(field) \o <<"\"">>
    ELSE field

RECURSIVE JoinFields(_)
JoinFields(fields) ==
    IF fields = <<>> THEN <<>>
    ELSE IF Len(fields) = 1 THEN WriterField(fields[1])
    ELSE WriterField(fields[1]) \o <<",">> \o JoinFields(Tail(fields))

\* writer.writerow(fields): a lone empty field is written as ""
writerow(fields) ==
    (IF fields = <<<<>>>> THEN <<"\"", "\"">> ELSE JoinFields(fields))
        \o <<"\r", "\n">>

CsvHeader ==
    << <<"i", "d">>,
       <<"c", "r", "e", "a", "t", "e", "d", "_", "a", "t">>,
       <<"s", "o", "u", "r", "c", "e">>,
       <<"n", "a", "m", "e">>,
       <<"e", "m", "a", "i", "l">>,
       <<"m", "e", "s", "s", "a", "g", "e">> >>

\* [l.id, l.created_at, l.source, l.name, l.email, l.message], each str()-ed
CsvRecord(l) ==
    <<IntStr(l.id), DatetimeStr(l.created_at), l.source, l.name, l.email,
      l.message>>

RECURSIVE WriteRows(_)
WriteRows(rows) ==
    IF rows = <<>> THEN <<>>
    ELSE writerow(CsvRecord(Head(rows))) \o WriteRows(Tail(rows))

-----------------------------------------------------------------------------
(* Handlers *)

\* a response: the status code, the kind of content and, by kind, its
\* parts: detail (an error's detail, a page's title, a JSON status), saved
\* and id (the JSON of /submit), rows (the table of /admin), text (the CSV
\* of /export.csv), location (a redirect's target)
Response(code, kind) ==
    [status |-> code, kind |-> kind, detail |-> "", saved |-> FALSE, id |-> 0,
     rows |-> <<>>, text |-> <<>>, location |-> ""]

\* raise HTTPException(status_code=code, detail=detail)
HttpError(code, detail) == [Response(code, "error") EXCEPT !.detail = detail]

\* a request: the route and, by route, the admin key, the form fields or
\* the payment session
Request(route) ==
    [route |-> route, key |-> None, name |-> <<>>, email |-> <<>>,
     message |-> <<>>, website |-> None, session_id |-> None]

\* a length test on the name as submitted, not stripped
NameTooShortUnstripped(name) == Len(name) < MinNameLen

\* len(name.strip()) < 2
NameTooShort(name) == Len(strip(name)) < MinNameLen

\* a length test that refuses the boundary length too
MessageTooShortInclusive(message) == Len(strip(message)) <= MinMessageLen

\* len(message.strip()) < 10
MessageTooShort(message) == Len(strip(message)) < MinMessageLen

\* POST /submit: the response and the table it leaves
submit_lead_api(table, name, email, message, website, now) ==
    IF Truthy(website)
    THEN [response |-> HttpError(400, "Invalid submission"), table |-> table]
    ELSE IF NameTooShort(name)
    THEN [response |-> HttpError(400, "Name too short"), table |-> table]
    ELSE IF MessageTooShort(message)
    THEN [response |-> HttpError(400, "Message too short"), table |-> table]
    ELSE LET row == NewLead(table, name, email, message, now)
         IN [response |-> [Response(200, "json") EXCEPT
                               !.saved = TRUE, !.id = row.id],
             table |-> Insert(table, row)]

\* a form handler that does not hand the honeypot field on
submit_lead_form_no_website(table, name, email, message, website, now) ==
    LET r == submit_lead_api(table, name, email, message, None, now)
    IN IF r.response.status # 200
       THEN r
       ELSE [response |-> [Response(303, "redirect") EXCEPT
                               !.location = "/thanks"],
             table |-> r.table]

\* POST /submit-form
submit_lead_form(table, name, email, message, website, now) ==
    LET r == submit_lead_api(table, name, email, message, Some(website), now)
    IN IF r.response.status # 200
       THEN r
       ELSE [response |-> [Response(303, "redirect") EXCEPT
                               !.location = "/thanks"],
             table |-> r.table]

\* the <tr> of each lead shown: l.id, l.name, l.email, l.message
RECURSIVE AdminRows(_)
AdminRows(shown) ==
    IF shown = <<>> THEN <<>>
    ELSE <<[id |-> Head(shown).id, name |-> Head(shown).name,
            email |-> Head(shown).email, message |-> Head(shown).message]>>
             \o AdminRows(Tail(shown))

\* GET /admin
admin_page(table, key) ==
    IF key # ADMIN_KEY
    THEN [Response(401, "html") EXCEPT !.detail = "Unauthorized"]
    ELSE [Response(200, "html") EXCEPT
              !.detail = "Admin - Leads",
              !.rows = AdminRows(Limit(OrderByIdDesc(table), AdminLimit))]

\* GET /export.csv
export_csv(table, x_admin_key) ==
    IF x_admin_key # Some(ADMIN_KEY)
    THEN HttpError(401, "Unauthorized")
    ELSE [Response(200, "csv") EXCEPT
              !.text = writerow(CsvHeader) \o WriteRows(OrderByIdDesc(table))]

Init ==
    /\ ADMIN_KEY \in AdminKeys
    /\ leads = <<>>
    /\ req = Request("start")
    /\ resp = Response(0, "none")
    /\ STRIPE_SECRET_KEY = ""
    /\ sessions = [id \in SessionIds |-> "none"]
    /\ pending = {}

Home ==
    /\ req' = Request("/")
    /\ resp' = [Response(200, "html") EXCEPT !.detail = "Lead Intake Demo"]
    /\ UNCHANGED <<ADMIN_KEY, leads, paid_vars>>

Thanks ==
    /\ req' = Request("/thanks")
    /\ resp' = [Response(200, "html") EXCEPT !.detail = "Thanks"]
    /\ UNCHANGED <<ADMIN_KEY, leads, paid_vars>>

HealthCheck ==
    /\ req' = Request("/health")
    /\ resp' = [Response(200, "json") EXCEPT !.detail = "ok"]
    /\ UNCHANGED <<ADMIN_KEY, leads, paid_vars>>

SubmitLeadApi ==
    \E name \in Names, email \in Emails, message \in Messages,
       website \in ApiWebsites, now \in Times :
        LET r == submit_lead_api(leads, name, email, message, website, now)
        IN /\ Len(r.table) <= MaxLeads
           /\ req' = [Request("/submit") EXCEPT
                          !.name = name, !.email = email, !.message = message,
                          !.website = website]
           /\ resp' = r.response
           /\ leads' = r.table
           /\ UNCHANGED <<ADMIN_KEY, paid_vars>>

SubmitLeadForm ==
    \E name \in Names, email \in Emails, message \in Messages,
       website \in FormWebsites, now \in Times :
        LET r == submit_lead_form(leads, name, email, message, website, now)
        IN /\ Len(r.table) <= MaxLeads
           /\ req' = [Request("/submit-form") EXCEPT
                          !.name = name, !.email = email, !.message = message,
                          !.website = Some(website)]
           /\ resp' = r.response
           /\ leads' = r.table
           /\ UNCHANGED <<ADMIN_KEY, paid_vars>>

AdminPage ==
    \E key \in QueryKeys :
        /\ req' = [Request("/admin") EXCEPT !.key = Some(key)]
        /\ resp' = admin_page(leads, key)
        /\ UNCHANGED <<ADMIN_KEY, leads, paid_vars>>

ExportCsv ==
    \E x_admin_key \in HeaderKeys :
        /\ req' = [Request("/export.csv") EXCEPT !.key = x_admin_key]
        /\ resp' = export_csv(leads, x_admin_key)
        /\ UNCHANGED <<ADMIN_KEY, leads, paid_vars>>

Next ==
    \/ Home
    \/ Thanks
    \/ HealthCheck
    \/ SubmitLeadApi
    \/ SubmitLeadForm
    \/ AdminPage
    \/ ExportCsv

Spec == Init /\ [][Next]_vars

-----------------------------------------------------------------------------
(* The paid variant: the same table with the payment columns, the payment  *)
(* verification adapter and the routes /create-checkout-session, /intake   *)
(* and /submit_paid.  src/main.py is the free variant; this part follows   *)
(* the specification (sections 3, 4.1, 4.2, 4.4, 6, 7).  /submit_paid      *)
(* looks the session up in the store and then inserts; the two store       *)
(* operations of concurrent requests interleave.                           *)

MinSessionIdLen == 10

SOURCE_WEB_PAID == <<"w", "e", "b", "_", "p", "a", "i", "d">>

PaidNames == { <<"J">>, <<" ", "J", "o">>, <<"A", "l", "\n">> }

PaidMessages ==
    { <<" ", "H", "e", "l", "l", "o", " ", "y", "o", "u", " ">>,
      <<"H", "e", "l", "l", "o", " ", "y", "o", "u", "!">> }

PaidTimes == {t \in Times : t.microsecond = 0}

\* verify_paid(session_id): the error response, or 200 when the session is paid
verify_paid(session_id) ==
    IF STRIPE_SECRET_KEY = ""
    THEN HttpError(500, "ConfigurationError")
    ELSE IF session_id = None \/ Len(session_id[1]) < MinSessionIdLen
    THEN HttpError(400, "InvalidInput")
    ELSE IF session_id[1] \notin SessionIds \/ sessions[session_id[1]] = "none"
    THEN HttpError(400, "UpstreamRejected")
    ELSE IF sessions[session_id[1]] # "paid"
    THEN HttpError(402, "PaymentIncomplete")
    ELSE Response(200, "paid")

\* find_by_session_id(id): the rows holding the session
find_by_session_id(table, session_id) ==
    {l \in Range(table) : l.stripe_session_id = session_id}

\* the row of a paid submission
NewPaidLead(table, session_id, name, email, message, now) ==
    [id |-> NextRowId(table),
     created_at |-> now,
     source |-> SOURCE_WEB_PAID,
     name |-> strip(name),
     email |-> strip(email),
     message |-> strip(message),
     paid |-> TRUE,
     stripe_session_id |-> session_id,
     paid_at |-> Some(now)]

\* a store without the uniqueness constraint
InsertUnconstrained(table, row) == [ok |-> TRUE, table |-> Append(table, row)]

\* insert(lead): refused when another row holds the same stripe_session_id
InsertUnique(table, row) ==
    IF row.stripe_session_id # None
          /\ find_by_session_id(table, row.stripe_session_id) # {}
    THEN [ok |-> FALSE, table |-> table]
    ELSE [ok |-> TRUE, table |-> Append(table, row)]

InitPaid ==
    /\ ADMIN_KEY = ""
    /\ leads = <<>>
    /\ req = Request("start")
    /\ resp = Response(0, "none")
    /\ STRIPE_SECRET_KEY \in StripeKeys
    /\ sessions = [id \in SessionIds |-> "none"]
    /\ pending = {}

\* POST /create-checkout-session
CreateCheckoutSession ==
    /\ req' = Request("/create-checkout-session")
    /\ IF STRIPE_SECRET_KEY = ""
       THEN /\ resp' = HttpError(500, "ConfigurationError")
            /\ UNCHANGED sessions
       ELSE \E id \in SessionIds :
               /\ sessions[id] = "none"
               /\ sessions' = [sessions EXCEPT ![id] = "unpaid"]
               /\ resp' = [Response(303, "redirect") EXCEPT !.location = id]
    /\ UNCHANGED <<ADMIN_KEY, leads, STRIPE_SECRET_KEY, pending>>

\* the customer pays on the provider's hosted page
ProviderPayment ==
    \E id \in SessionIds :
        /\ sessions[id] = "unpaid"
        /\ sessions' = [sessions EXCEPT ![id] = "paid"]
        /\ UNCHANGED <<ADMIN_KEY, leads, req, resp, STRIPE_SECRET_KEY, pending>>

\* GET /intake
Intake ==
    \E session_id \in SessionInputs :
        /\ req' = [Request("/intake") EXCEPT !.session_id = session_id]
        /\ resp' = IF verify_paid(session_id).status # 200
                   THEN verify_paid(session_id)
                   ELSE [Response(200, "html") EXCEPT !.detail = "Intake"]
        /\ UNCHANGED <<ADMIN_KEY, leads, paid_vars>>

\* POST /submit_paid up to the store lookup: verify, validate, look up
SubmitPaidLookup ==
    \E session_id \in SessionInputs, name \in PaidNames, email \in Emails,
       message \in PaidMessages :
        LET this == [Request("/submit_paid") EXCEPT
                        !.session_id = session_id, !.name = name,
                        !.email = email, !.message = message]
            refused ==
                IF verify_paid(session_id).status # 200
                THEN verify_paid(session_id)
                ELSE IF NameTooShort(name)
                THEN HttpError(400, "Name too short")
                ELSE IF MessageTooShort(message)
                THEN HttpError(400, "Message too short")
                ELSE IF find_by_session_id(leads, session_id) # {}
                THEN HttpError(409, "Conflict")
                ELSE Response(0, "none")
        IN /\ req' = this
           /\ resp' = refused
           /\ IF refused.status # 0
              THEN UNCHANGED pending
              ELSE /\ Cardinality(pending) < MaxPending
                   /\ this \notin pending
                   /\ pending' = pending \cup {this}
           /\ UNCHANGED <<ADMIN_KEY, leads, STRIPE_SECRET_KEY, sessions>>

\* POST /submit_paid from the INSERT on
SubmitPaidInsert ==
    \E this \in pending, now \in PaidTimes :
        LET row == NewPaidLead(leads, this.session_id, this.name, this.email,
                               this.message, now)
            r == InsertUnique(leads, row)
        IN /\ Len(r.table) <= MaxLeads
           /\ pending' = pending \ {this}
           /\ req' = this
           /\ leads' = r.table
           /\ resp' = IF r.ok
                      THEN [Response(200, "html") EXCEPT
                                !.detail = "Saved", !.saved = TRUE, !.id = row.id]
                      ELSE HttpError(409, "IntegrityError")
           /\ UNCHANGED <<ADMIN_KEY, STRIPE_SECRET_KEY, sessions>>

NextPaid ==
    \/ CreateCheckoutSession
    \/ ProviderPayment
    \/ Intake
    \/ SubmitPaidLookup
    \/ SubmitPaidInsert

SpecPaid == InitPaid /\ [][NextPaid]_vars

-----------------------------------------------------------------------------
(* Vocabulary of the properties, stated without the handlers' operators *)

SubmitRoutes == {"/submit", "/submit-form"}

\* the request carried a non-empty honeypot field
WebsiteFilled(r) == r.website # None /\ Len(r.website[1]) > 0

SetMin(S) == CHOOSE m \in S : \A x \in S : m <= x

NonBlank(s) == {i \in 1..Len(s) : s[i] \notin Whitespace}

\* length of s without its surrounding whitespace
TrimmedLen(s) ==
    IF NonBlank(s) = {} THEN 0 ELSE SetMax(NonBlank(s)) - SetMin(NonBlank(s)) + 1

\* s has no surrounding whitespace
IsTrimmed(s) == s = <<>> \/ (s[1] \notin Whitespace /\ s[Len(s)] \notin Whitespace)

\* t is s without its surrounding whitespace
IsTrimOf(t, s) ==
    /\ IsTrimmed(t)
    /\ \E a \in 0..Len(s) :
          /\ a + Len(t) <= Len(s)
          /\ \A i \in 1..Len(s) :
                IF i > a /\ i <= a + Len(t) THEN s[i] = t[i - a]
                ELSE s[i] \in Whitespace

\* the step answered a submission by storing a lead
Accepted(r, a) ==
    \/ r.route = "/submit" /\ a.status = 200
    \/ r.route = "/submit-form" /\ a.status = 303

Ids(table) == {table[i].id : i \in 1..Len(table)}

Newest(table) == CHOOSE l \in Range(table) : \A m \in Range(table) : m.id <= l.id

-----------------------------------------------------------------------------
C3_ShortName ==
    [][ (req'.route = "/submit" /\ ~WebsiteFilled(req')) =>
          /\ TrimmedLen(req'.name) < 2 =>
                /\ resp'.status = 400
                /\ resp'.detail = "Name too short"
                /\ leads' = leads
          /\ (TrimmedLen(req'.name) = 2 /\ TrimmedLen(req'.message) >= 10) =>
                /\ resp'.status = 200
                /\ resp'.saved
                /\ Len(leads') = Len(leads) + 1
                /\ \E l \in Range(leads') :
                      /\ l.id = resp'.id
                      /\ l.id \notin Ids(leads)
                      /\ IsTrimOf(l.name, req'.name) ]_vars

C3_Witness ==
    /\ req.route = "/submit"
    /\ ~WebsiteFilled(req)
    /\ Len(req.name) >= 2
    /\ TrimmedLen(req.name) < 2
    /\ TrimmedLen(req.message) >= 10
    /\ resp.status = 400
    /\ resp.detail = "Name too short"

(* C4: with an empty honeypot and a valid name, /submit answers 400 and    *)
(* stores nothing when the trimmed message is shorter than 10; a message   *)
(* of trimmed length exactly 10 is accepted and stored.                    *)
C4_ShortMessage ==
    [][ (req'.route = "/submit" /\ ~WebsiteFilled(req')
            /\ TrimmedLen(req'.name) >= 2) =>
          /\ TrimmedLen(req'.message) < 10 =>
                (resp'.status = 400 /\ leads' = leads)
          /\ TrimmedLen(req'.message) = 10 =>
                /\ resp'.status = 200
                /\ Len(leads') = Len(leads) + 1
                /\ \E l \in Range(leads') :
                      /\ l.id = resp'.id
                      /\ l.id \notin Ids(leads)
                      /\ IsTrimOf(l.message, req'.message) ]_vars

C4_Witness ==
    /\ req.route = "/submit"
    /\ ~WebsiteFilled(req)
    /\ Len(req.message) > 10
    /\ TrimmedLen(req.message) = 10
    /\ resp.status = 200
    /\ \E l \in Range(leads) : l.id = resp.id /\ Len(l.message) = 10

(* C6: every accepted submission stores its lead under an id that is       *)
(* greater than the id of every lead stored before it, and /submit         *)
(* returns that id.                                                         *)
C6_IdsIncrease ==
    [][ Accepted(req', resp') =>
          /\ \A new \in Range(leads') \ Range(leads) :
                \A old \in Range(leads) : new.id > old.id
          /\ Cardinality(Ids(leads')) = Len(leads')
          /\ req'.route = "/submit" =>
                (resp'.id \in Ids(leads') \ Ids(leads)) ]_vars

C6_Witness ==
    /\ req.route = "/submit"
    /\ resp.status = 200
    /\ Len(leads) >= 2
    /\ resp.id = Newest(leads).id
    /\ \E l \in Range(leads) : l.id < resp.id

(* C7: the leads table is append-only: every step of every route keeps     *)
(* each existing row with all its fields, and only an accepted submission  *)
(* changes the table, adding exactly one row.                               *)
C7_AppendOnly ==
    [][ /\ \A l \in Range(leads) : l \in Range(leads')
        /\ leads' # leads =>
              /\ Accepted(req', resp')
              /\ Len(leads') = Len(leads) + 1
              /\ Cardinality(Range(leads')) = Cardinality(Range(leads)) + 1 ]_vars

C7_Witness ==
    /\ Len(leads) = 2
    /\ Accepted(req, resp)
    /\ Newest(leads).id = 2
    /\ \E l \in Range(leads) : l.id = 1

(* C8: every stored lead holds the trimmed values of the submission that   *)
(* created it: name, email and message carry no surrounding whitespace,    *)
(* the name has at least 2 characters, the message at least 10, and the    *)
(* source is `web`.                                                         *)
C8_StoredTrimmed ==
    /\ \A l \in Range(leads) :
          /\ IsTrimmed(l.name) /\ Len(l.name) >= 2
          /\ IsTrimmed(l.message) /\ Len(l.message) >= 10
          /\ IsTrimmed(l.email)
          /\ l.source = <<"w", "e", "b">>
    /\ Accepted(req, resp) =>
          /\ leads # <<>>
          /\ IsTrimOf(Newest(leads).name, req.name)
          /\ IsTrimOf(Newest(leads).email, req.email)
          /\ IsTrimOf(Newest(leads).message, req.message)

C8_Witness ==
    /\ Accepted(req, resp)
    /\ Len(req.name) > TrimmedLen(req.name)
    /\ Len(req.message) > TrimmedLen(req.message)
    /\ Len(Newest(leads).name) = 2
    /\ Len(Newest(leads).message) = 10

-----------------------------------------------------------------------------
(* A CSV reader, to read back what /export.csv wrote *)

Quotes(text, from, to) == {k \in from..to : text[k] = "\""}

FieldEnds == {",", "\r", "\n"}

\* the first index >= i holding a field or record terminator, else Len + 1
Terminator(text, i) ==
    LET T == {j \in i..Len(text) : text[j] \in FieldEnds}
    IN IF T = {} THEN Len(text) + 1 ELSE SetMin(T)

\* the elements of text at the indexes in keep, in order
Pick(text, keep) ==
    [n \in 1..Cardinality(keep) |->
        text[CHOOSE k \in keep : Cardinality({m \in keep : m <= k}) = n]]

\* the field starting at index i: its value and the index of its terminator.
\* A quoted field ends at the first quote that is not the first of a pair.
ReadField(text, i) ==
    IF text[i] # "\""
    THEN [value |-> SubSeq(text, i, Terminator(text, i) - 1),
          stop |-> Terminator(text, i)]
    ELSE LET C == {j \in (i + 1)..Len(text) :
                      /\ text[j] = "\""
                      /\ Cardinality(Quotes(text, i + 1, j)) % 2 = 1
                      /\ (j = Len(text) \/ text[j + 1] # "\"")}
             close == IF C = {} THEN Len(text) + 1 ELSE SetMin(C)
             keep == {k \in (i + 1)..(close - 1) :
                         \/ text[k] # "\""
                         \/ Cardinality(Quotes(text, i + 1, k)) % 2 = 0}
             stop == Terminator(text, close + 1)
         IN [value |-> Pick(text, keep) \o SubSeq(text, close + 1, stop - 1),
             stop |-> stop]

RECURSIVE ReadRows(_, _, _, _)
ReadRows(text, i, row, rows) ==
    IF i > Len(text)
    THEN IF row = <<>> THEN rows ELSE Append(rows, Append(row, <<>>))
    ELSE IF row = <<>> /\ text[i] \in {"\r", "\n"}
    THEN ReadRows(text, i + 1, row, rows)
    ELSE LET f == ReadField(text, i)
         IN IF f.stop <= Len(text) /\ text[f.stop] = ","
            THEN ReadRows(text, f.stop + 1, Append(row, f.value), rows)
            ELSE ReadRows(text,
                          IF f.stop < Len(text) /\ text[f.stop] = "\r"
                                /\ text[f.stop + 1] = "\n"
                          THEN f.stop + 2 ELSE f.stop + 1,
                          <<>>, Append(rows, Append(row, f.value)))

ReadCsv(text) == ReadRows(text, 1, <<>>, <<>>)

DigitValue(c) ==
    CASE c = "0" -> 0 [] c = "1" -> 1 [] c = "2" -> 2 [] c = "3" -> 3
      [] c = "4" -> 4 [] c = "5" -> 5 [] c = "6" -> 6 [] c = "7" -> 7
      [] c = "8" -> 8 [] c = "9" -> 9 [] OTHER -> -1

RECURSIVE ReadNat(_)
ReadNat(s) ==
    IF s = <<>> THEN 0
    ELSE 10 * ReadNat(SubSeq(s, 1, Len(s) - 1)) + DigitValue(s[Len(s)])

IsNat(s) == s # <<>> /\ \A i \in 1..Len(s) : DigitValue(s[i]) >= 0

\* "YYYY-MM-DD HH:MM:SS" or "YYYY-MM-DD HH:MM:SS.ffffff"
IsDatetime(s) ==
    /\ Len(s) \in {19, 26}
    /\ \A i \in 1..Len(s) :
          CASE i \in {5, 8} -> s[i] = "-"
            [] i = 11 -> s[i] = " "
            [] i \in {14, 17} -> s[i] = ":"
            [] i = 20 -> s[i] = "."
            [] OTHER -> DigitValue(s[i]) >= 0

ReadDatetime(s) ==
    [year |-> ReadNat(SubSeq(s, 1, 4)), month |-> ReadNat(SubSeq(s, 6, 7)),
     day |-> ReadNat(SubSeq(s, 9, 10)), hour |-> ReadNat(SubSeq(s, 12, 13)),
     minute |-> ReadNat(SubSeq(s, 15, 16)), second |-> ReadNat(SubSeq(s, 18, 19)),
     microsecond |-> IF Len(s) = 26 THEN ReadNat(SubSeq(s, 21, 26)) ELSE 0]

Columns ==
    << <<"i", "d">>,
       <<"c", "r", "e", "a", "t", "e", "d", "_", "a", "t">>,
       <<"s", "o", "u", "r", "c", "e">>,
       <<"n", "a", "m", "e">>,
       <<"e", "m", "a", "i", "l">>,
       <<"m", "e", "s", "s", "a", "g", "e">> >>

\* the CSV record r carries lead l, field by field
Carries(r, l) ==
    /\ Len(r) = 6
    /\ IsNat(r[1]) /\ ReadNat(r[1]) = l.id
    /\ IsDatetime(r[2]) /\ ReadDatetime(r[2]) = l.created_at
    /\ r[3] = l.source
    /\ r[4] = l.name
    /\ r[5] = l.email
    /\ r[6] = l.message

(* C9: an authorized GET /export.csv returns the header id, created_at,    *)
(* source, name, email, message followed by exactly one record per stored  *)
(* lead, and every field reads back as the stored value.                   *)
C9_CsvRoundTrip ==
    (req.route = "/export.csv" /\ resp.status = 200) =>
        LET rows == ReadCsv(resp.text)
        IN /\ resp.kind = "csv"
           /\ Len(rows) = Len(leads) + 1
           /\ rows[1] = Columns
           /\ \A l \in Range(leads) :
                 \E k \in 2..Len(rows) : Carries(rows[k], l)
           /\ \A k \in 2..Len(rows) :
                 \E l \in Range(leads) : Carries(rows[k], l)

C9_Witness ==
    /\ req.route = "/export.csv"
    /\ resp.status = 200
    /\ Len(leads) = 2
    /\ \E l \in Range(leads) :
          /\ l.created_at.microsecond # 0
          /\ \E i \in 1..Len(l.message) : l.message[i] = "\""
          /\ \E i \in 1..Len(l.message) : l.message[i] = "\n"
          /\ \E i \in 1..Len(l.message) : l.message[i] = ","

C1_Unauthorized ==
    (/\ req.route \in {"/admin", "/export.csv"}
     /\ \/ req.key # Some(ADMIN_KEY)
        \/ ADMIN_KEY = "" /\ req.key \in {None, Some("")})
        => /\ resp.status = 401
           /\ resp.rows = <<>>
           /\ resp.text = <<>>

(* C5: a payment session backs at most one lead: no two rows share a       *)
(* non-null stripe_session_id, every paid row has a non-null               *)
(* stripe_session_id, and an INSERT of a lead whose stripe_session_id is   *)
(* already in the table fails with a conflict and adds no row.             *)
C5_SessionBacksOneLead ==
    [][ /\ \A i, j \in 1..Len(leads') :
              (i # j /\ leads'[i].stripe_session_id # None)
                  => leads'[i].stripe_session_id # leads'[j].stripe_session_id
        /\ \A l \in Range(leads') : l.paid => l.stripe_session_id # None
        /\ (/\ req' \in pending
            /\ req' \notin pending'
            /\ \E l \in Range(leads) : l.stripe_session_id = req'.session_id)
              => (resp'.status = 409 /\ leads' = leads) ]_vars

C5_Witness ==
    /\ req.route = "/submit_paid"
    /\ resp.status = 409
    /\ resp.detail = "IntegrityError"
    /\ \E l \in Range(leads) :
          /\ l.paid
          /\ l.stripe_session_id = req.session_id
          /\ ~IsTrimOf(l.name, req.name)

====
